---- MODULE Spec2Model ----
(***************************************************************************)
(* The CodeBlock component of the fuwari theme                             *)
(* (src/features/theme/themes/fuwari/components/content/code-block.tsx)    *)
(* as a state machine: one component instance, its props, its four React   *)
(* state cells, the ref to the content region, the committed view, the     *)
(* pending setTimeout callbacks and the clipboard.                         *)
(*                                                                         *)
(* JavaScript strings are sequences of one-character strings, so that      *)
(* toLowerCase and the template literal are computed, not assumed.  A      *)
(* JavaScript value that may be undefined, null, a string or an object is  *)
(* a record tagged by its type in the field t.                             *)
(***************************************************************************)
EXTENDS Integers, Sequences, FiniteSets, TLC

VARIABLES
  mounted,          \* the component instance is in the tree
  code,             \* prop code: string
  language,         \* prop language: string | null
  highlightedHtml,  \* prop highlightedHtml?: string
  scrollHeight,     \* contentRef.current.scrollHeight of the committed markup
  contentRef,       \* contentRef.current: "div" or "null"
  copied,           \* useState(false)
  isCollapsed,      \* useState(true)
  needsFolding,     \* useState(false)
  contentHeight,    \* useState(0)
  pc,               \* "layout": a commit changed html, its layout effect is due
  view,             \* the committed render output
  now,              \* the clock, in ms
  timers,           \* deadlines of the pending setTimeout callbacks, in order
  clipboard,        \* last argument of navigator.clipboard.writeText
  lastCopyAt        \* clock value of the most recent handleCopy

vars == <<mounted, code, language, highlightedHtml, scrollHeight, contentRef,
          copied, isCollapsed, needsFolding, contentHeight, pc, view, now,
          timers, clipboard, lastCopyAt>>

(***************************************************************************)
(* Program constants                                                       *)
(***************************************************************************)
FOLD_THRESHOLD == 400

FoldSlack == 50

RevertDelay == 2000

(***************************************************************************)
(* Bounds of the model                                                     *)
(***************************************************************************)
MaxTicks == 3

MaxTimers == 2

TickStep == RevertDelay \div 2

MaxTime == MaxTicks * TickStep

(***************************************************************************)
(* JavaScript values                                                       *)
(***************************************************************************)
Undefined == [t |-> "undefined"]

Null == [t |-> "null"]

Str(s) == [t |-> "string", v |-> s]

\* ToBoolean: undefined, null and "" are falsy; objects and functions truthy
Truthy(x) ==
  CASE x.t = "undefined" -> FALSE
    [] x.t = "null" -> FALSE
    [] x.t = "string" -> x.v # <<>>
    [] OTHER -> TRUE

\* a || b
Or(a, b) == IF Truthy(a) THEN a ELSE b

UpperLetters ==
  <<"A","B","C","D","E","F","G","H","I","J","K","L","M",
    "N","O","P","Q","R","S","T","U","V","W","X","Y","Z">>

LowerLetters ==
  <<"a","b","c","d","e","f","g","h","i","j","k","l","m",
    "n","o","p","q","r","s","t","u","v","w","x","y","z">>

ToLowerChar(c) ==
  IF \E i \in 1..Len(UpperLetters) : UpperLetters[i] = c
  THEN LowerLetters[CHOOSE i \in 1..Len(UpperLetters) : UpperLetters[i] = c]
  ELSE c

\* String.prototype.toLowerCase
ToLowerCase(s) == [i \in 1..Len(s) |-> ToLowerChar(s[i])]

(***************************************************************************)
(* The language badge                                                      *)
(***************************************************************************)
\* const LANGUAGE_MAP: Record<string, string> = { ... }, as <<key, label>>
LANGUAGE_MAP ==
  { << <<"t","s">>, <<"T","y","p","e","S","c","r","i","p","t">> >>,
    << <<"t","y","p","e","s","c","r","i","p","t">>, <<"T","y","p","e","S","c","r","i","p","t">> >>,
    << <<"j","s">>, <<"J","a","v","a","S","c","r","i","p","t">> >>,
    << <<"j","a","v","a","s","c","r","i","p","t">>, <<"J","a","v","a","S","c","r","i","p","t">> >>,
    << <<"j","s","x">>, <<"J","S","X">> >>,
    << <<"t","s","x">>, <<"T","S","X">> >>,
    << <<"p","y">>, <<"P","y","t","h","o","n">> >>,
    << <<"p","y","t","h","o","n">>, <<"P","y","t","h","o","n">> >>,
    << <<"r","b">>, <<"R","u","b","y">> >>,
    << <<"r","u","b","y">>, <<"R","u","b","y">> >>,
    << <<"g","o">>, <<"G","o">> >>,
    << <<"r","s">>, <<"R","u","s","t">> >>,
    << <<"r","u","s","t">>, <<"R","u","s","t">> >>,
    << <<"j","a","v","a">>, <<"J","a","v","a">> >>,
    << <<"c","p","p">>, <<"C","+","+">> >>,
    << <<"c">>, <<"C">> >>,
    << <<"p","h","p">>, <<"P","H","P">> >>,
    << <<"c","s","s">>, <<"C","S","S">> >>,
    << <<"h","t","m","l">>, <<"H","T","M","L">> >>,
    << <<"j","s","o","n">>, <<"J","S","O","N">> >>,
    << <<"y","a","m","l">>, <<"Y","A","M","L">> >>,
    << <<"x","m","l">>, <<"X","M","L">> >>,
    << <<"s","q","l">>, <<"S","Q","L">> >>,
    << <<"s","h">>, <<"s","h">> >>,
    << <<"b","a","s","h">>, <<"b","a","s","h">> >>,
    << <<"m","d">>, <<"M","a","r","k","d","o","w","n">> >>,
    << <<"t","e","x","t">>, <<"t","e","x","t">> >>,
    << <<"t","x","t">>, <<"t","e","x","t">> >> }

\* LANGUAGE_MAP is an object literal, so a key it does not own is looked up
\* in Object.prototype.  Of its members only constructor and __proto__ are
\* written without an upper-case letter; toString and valueOf stand for the
\* rest (hasOwnProperty, isPrototypeOf, propertyIsEnumerable, ...).
ObjectPrototype ==
  { << <<"c","o","n","s","t","r","u","c","t","o","r">>, [t |-> "function", name |-> "Object"] >>,
    << <<"_","_","p","r","o","t","o","_","_">>, [t |-> "object", name |-> "Object.prototype"] >>,
    << <<"t","o","S","t","r","i","n","g">>, [t |-> "function", name |-> "toString"] >>,
    << <<"v","a","l","u","e","O","f">>, [t |-> "function", name |-> "valueOf"] >> }

OwnKeys == { e[1] : e \in LANGUAGE_MAP }

InheritedKeys == { e[1] : e \in ObjectPrototype }

\* LANGUAGE_MAP[key]
LanguageMapGet(key) ==
  IF key \in OwnKeys
  THEN Str((CHOOSE e \in LANGUAGE_MAP : e[1] = key)[2])
  ELSE IF key \in InheritedKeys
       THEN (CHOOSE e \in ObjectPrototype : e[1] = key)[2]
       ELSE Undefined

Text == <<"t","e","x","t">>

\* language ? LANGUAGE_MAP[language.toLowerCase()] || language.toLowerCase()
\*          : "text"
DisplayLanguage(lang) ==
  IF Truthy(lang)
  THEN Or(LanguageMapGet(ToLowerCase(lang.v)), Str(ToLowerCase(lang.v)))
  ELSE Str(Text)

(***************************************************************************)
(* Render                                                                  *)
(***************************************************************************)
PreOpen ==
  <<"<pre class=\"shiki font-mono text-sm leading-relaxed whitespace-pre-wrap text-(--fuwari-btn-content) bg-transparent! p-0 m-0 border-0\"><code>">>

PreClose == <<"</code></pre>">>

\* const fallback = `<pre ...><code>${code}</code></pre>`
Fallback(c) == Str(PreOpen \o c \o PreClose)

\* highlightedHtml ?? fallback
Html_Nullish(c, h) == IF h = Undefined THEN Fallback(c) ELSE h

\* const html = highlightedHtml || fallback
Html(c, h) == Or(h, Fallback(c))

Style_AlwaysThreshold(nf, coll, ch) ==
  IF nf THEN [t |-> "object", maxHeight |-> FOLD_THRESHOLD] ELSE Undefined

\* style={needsFolding ? {maxHeight: isCollapsed ? FOLD_THRESHOLD
\*                                               : contentHeight} : undefined}
Style(nf, coll, ch) ==
  IF nf
  THEN [t |-> "object", maxHeight |-> IF coll THEN FOLD_THRESHOLD ELSE ch]
  ELSE Undefined

\* the button without the needsFolding test
ExpandButton_AlwaysRendered(nf, coll) == [t |-> "button", disabled |-> ~coll]

ExpandButton_NeverDisabled(nf, coll) ==
  IF nf THEN [t |-> "button", disabled |-> FALSE] ELSE [t |-> "false"]

\* {needsFolding && (<div ...><button onClick=... disabled={!isCollapsed}>)}
ExpandButton(nf, coll) ==
  IF nf THEN [t |-> "button", disabled |-> ~coll] ELSE [t |-> "false"]

\* the element tree the component returns, reduced to what depends on
\* props and state
Render(c, l, h, cop, coll, nf, ch) ==
  [ label |-> DisplayLanguage(l),
    copiedIcon |-> cop,
    collapsedClass |-> nf /\ coll,
    style |-> Style(nf, coll, ch),
    innerHTML |-> Html(c, h),
    mask |-> nf,
    expandButton |-> ExpandButton(nf, coll) ]

\* nothing of the instance is left in the document
Removed == [t |-> "removed"]

(***************************************************************************)
(* Inputs                                                                  *)
(***************************************************************************)
Codes == { <<"a", "\n", "b">>, <<"x", "<", "y">> }

Markups ==
  { Undefined, Str(<<>>),
    Str(<<"<pre class=\"shiki\"><code>", "<span>", "a", "</span>", "</code></pre>">>) }

Languages == { Null, Str(<<"T","S">>) }

\* heights the layout engine may report for a markup version
Heights ==
  { FOLD_THRESHOLD, FOLD_THRESHOLD + FoldSlack,
    FOLD_THRESHOLD + FoldSlack + 1, 1000 }

(***************************************************************************)
(* Construction: useState initial values, the first commit; the layout     *)
(* effect of the first commit has not run yet                              *)
(***************************************************************************)
InitWith(cs, ls, hs) ==
  /\ mounted = TRUE
  /\ code \in cs
  /\ language \in ls
  /\ highlightedHtml \in hs
  /\ scrollHeight \in Heights
  /\ contentRef = "div"
  /\ copied = FALSE
  /\ isCollapsed = TRUE
  /\ needsFolding = FALSE
  /\ contentHeight = 0
  /\ pc = "layout"
  /\ view = Render(code, language, highlightedHtml, FALSE, TRUE, FALSE, 0)
  /\ now = 0
  /\ timers = <<>>
  /\ clipboard = Undefined
  /\ lastCopyAt = 0 - RevertDelay

Init == InitWith(Codes, Languages, Markups)

(***************************************************************************)
(* useLayoutEffect(() => {...}, [html])                                    *)
(***************************************************************************)
\* the height is compared without the test of contentRef.current
Exceeds_NoRefTest(ref, h) == h > FOLD_THRESHOLD + FoldSlack

\* if (contentRef.current) { if (scrollHeight > FOLD_THRESHOLD + 50) ... }
Exceeds(ref, h) == ref # "null" /\ h > FOLD_THRESHOLD + FoldSlack

\* setNeedsFolding(scrollHeight > FOLD_THRESHOLD + 50)
LayoutEffect_Reassigns ==
  /\ mounted
  /\ pc = "layout"
  /\ needsFolding' = Exceeds(contentRef, scrollHeight)
  /\ contentHeight' = IF Exceeds(contentRef, scrollHeight) THEN scrollHeight
                                                           ELSE contentHeight
  /\ pc' = "idle"
  /\ view' = Render(code, language, highlightedHtml, copied, isCollapsed,
                    needsFolding', contentHeight')
  /\ UNCHANGED <<mounted, code, language, highlightedHtml, scrollHeight,
                 contentRef, copied, isCollapsed, now, timers, clipboard,
                 lastCopyAt>>

\* the height is recorded only while needsFolding is still false
LayoutEffect_MeasuresOnce ==
  /\ mounted
  /\ pc = "layout"
  /\ needsFolding' = IF Exceeds(contentRef, scrollHeight) THEN TRUE ELSE needsFolding
  /\ contentHeight' = IF ~needsFolding /\ Exceeds(contentRef, scrollHeight)
                      THEN scrollHeight ELSE contentHeight
  /\ pc' = "idle"
  /\ view' = Render(code, language, highlightedHtml, copied, isCollapsed,
                    needsFolding', contentHeight')
  /\ UNCHANGED <<mounted, code, language, highlightedHtml, scrollHeight,
                 contentRef, copied, isCollapsed, now, timers, clipboard,
                 lastCopyAt>>

\* setContentHeight(scrollHeight) outside the comparison
LayoutEffect_AlwaysRecords ==
  /\ mounted
  /\ pc = "layout"
  /\ needsFolding' = IF Exceeds(contentRef, scrollHeight) THEN TRUE ELSE needsFolding
  /\ contentHeight' = IF contentRef # "null" THEN scrollHeight ELSE contentHeight
  /\ pc' = "idle"
  /\ view' = Render(code, language, highlightedHtml, copied, isCollapsed,
                    needsFolding', contentHeight')
  /\ UNCHANGED <<mounted, code, language, highlightedHtml, scrollHeight,
                 contentRef, copied, isCollapsed, now, timers, clipboard,
                 lastCopyAt>>

LayoutEffect ==
  /\ mounted
  /\ pc = "layout"
  /\ needsFolding' = IF Exceeds(contentRef, scrollHeight) THEN TRUE ELSE needsFolding
  /\ contentHeight' = IF Exceeds(contentRef, scrollHeight) THEN scrollHeight
                                                           ELSE contentHeight
  /\ pc' = "idle"
  /\ view' = Render(code, language, highlightedHtml, copied, isCollapsed,
                    needsFolding', contentHeight')
  /\ UNCHANGED <<mounted, code, language, highlightedHtml, scrollHeight,
                 contentRef, copied, isCollapsed, now, timers, clipboard,
                 lastCopyAt>>

\* the new output reaches the document only after the layout effect
SetProps_CommitAfterEffect(c, l, h) ==
  /\ mounted
  /\ pc = "idle"
  /\ <<c, l, h>> # <<code, language, highlightedHtml>>
  /\ code' = c
  /\ language' = l
  /\ highlightedHtml' = h
  /\ IF Html(c, h) # Html(code, highlightedHtml)
     THEN /\ pc' = "layout"
          /\ scrollHeight' \in Heights
     ELSE /\ pc' = "idle"
          /\ scrollHeight' = scrollHeight
  /\ view' = view
  /\ UNCHANGED <<mounted, contentRef, copied, isCollapsed, needsFolding,
                 contentHeight, now, timers, clipboard, lastCopyAt>>

(***************************************************************************)
(* The parent renders the instance with new props.  memo() skips equal     *)
(* props.  State cells keep their values; the new output is committed; the *)
(* layout effect is due when html, its only dependency, has changed.       *)
(***************************************************************************)
SetProps(c, l, h) ==
  /\ mounted
  /\ pc = "idle"
  /\ <<c, l, h>> # <<code, language, highlightedHtml>>
  /\ code' = c
  /\ language' = l
  /\ highlightedHtml' = h
  /\ IF Html(c, h) # Html(code, highlightedHtml)
     THEN /\ pc' = "layout"
          /\ scrollHeight' \in Heights
     ELSE /\ pc' = "idle"
          /\ scrollHeight' = scrollHeight
  /\ view' = Render(c, l, h, copied, isCollapsed, needsFolding, contentHeight)
  /\ UNCHANGED <<mounted, contentRef, copied, isCollapsed, needsFolding,
                 contentHeight, now, timers, clipboard, lastCopyAt>>

(***************************************************************************)
(* A click on the expand button: onClick={() => setIsCollapsed(false)},    *)
(* which a disabled button does not dispatch                               *)
(***************************************************************************)
\* the value the handler passes to setIsCollapsed
OnClickExpand == FALSE

Expand ==
  /\ mounted
  /\ pc = "idle"
  /\ view.expandButton.t = "button"
  /\ isCollapsed' = IF view.expandButton.disabled THEN isCollapsed
                                                  ELSE OnClickExpand
  /\ view' = Render(code, language, highlightedHtml, copied, isCollapsed',
                    needsFolding, contentHeight)
  /\ UNCHANGED <<mounted, code, language, highlightedHtml, scrollHeight,
                 contentRef, copied, needsFolding, contentHeight, pc, now,
                 timers, clipboard, lastCopyAt>>

(***************************************************************************)
(* handleCopy                                                              *)
(***************************************************************************)
WriteTextArgument_Markup == Html(code, highlightedHtml)

\* the argument of navigator.clipboard.writeText(code)
WriteTextArgument == Str(code)

\* setTimeout(() => setCopied(false), 2000): nothing is cleared
SetTimeout(ts, t) == Append(ts, t + RevertDelay)

\* the copy handler also calls setIsCollapsed(true)
HandleCopy_Collapses ==
  /\ mounted
  /\ pc = "idle"
  /\ Len(timers) < MaxTimers
  /\ now + RevertDelay <= MaxTime
  /\ clipboard' = WriteTextArgument
  /\ copied' = TRUE
  /\ timers' = SetTimeout(timers, now)
  /\ lastCopyAt' = now
  /\ isCollapsed' = TRUE
  /\ view' = Render(code, language, highlightedHtml, copied', isCollapsed',
                    needsFolding, contentHeight)
  /\ UNCHANGED <<mounted, code, language, highlightedHtml, scrollHeight,
                 contentRef, needsFolding, contentHeight, pc, now>>

HandleCopy ==
  /\ mounted
  /\ pc = "idle"
  /\ Len(timers) < MaxTimers
  /\ now + RevertDelay <= MaxTime
  /\ clipboard' = WriteTextArgument
  /\ copied' = TRUE
  /\ timers' = SetTimeout(timers, now)
  /\ lastCopyAt' = now
  /\ view' = Render(code, language, highlightedHtml, copied', isCollapsed,
                    needsFolding, contentHeight)
  /\ UNCHANGED <<mounted, code, language, highlightedHtml, scrollHeight,
                 contentRef, isCollapsed, needsFolding, contentHeight, pc, now>>

\* the callback runs but does not call setCopied(false)
TimerFire_KeepsCopied ==
  /\ pc = "idle"
  /\ timers # <<>>
  /\ Head(timers) <= now
  /\ timers' = Tail(timers)
  /\ copied' = copied
  /\ view' = IF mounted
             THEN Render(code, language, highlightedHtml, copied', isCollapsed,
                         needsFolding, contentHeight)
             ELSE view
  /\ UNCHANGED <<mounted, code, language, highlightedHtml, scrollHeight,
                 contentRef, isCollapsed, needsFolding, contentHeight, pc, now,
                 clipboard, lastCopyAt>>

(***************************************************************************)
(* The earliest pending timeout is due and its callback runs:              *)
(* () => setCopied(false).  React drops a state update of an instance that *)
(* is no longer mounted.                                                   *)
(***************************************************************************)
TimerFire ==
  /\ pc = "idle"
  /\ timers # <<>>
  /\ Head(timers) <= now
  /\ timers' = Tail(timers)
  /\ copied' = IF mounted THEN FALSE ELSE copied
  /\ view' = IF mounted
             THEN Render(code, language, highlightedHtml, copied', isCollapsed,
                         needsFolding, contentHeight)
             ELSE view
  /\ UNCHANGED <<mounted, code, language, highlightedHtml, scrollHeight,
                 contentRef, isCollapsed, needsFolding, contentHeight, pc, now,
                 clipboard, lastCopyAt>>

\* time passes
Tick ==
  /\ pc = "idle"
  /\ now < MaxTime
  /\ now' = now + TickStep
  /\ UNCHANGED <<mounted, code, language, highlightedHtml, scrollHeight,
                 contentRef, copied, isCollapsed, needsFolding, contentHeight,
                 pc, view, timers, clipboard, lastCopyAt>>

(***************************************************************************)
(* The instance is removed from the tree.  The component registers no      *)
(* effect cleanup, so pending timeouts stay pending; React detaches the    *)
(* ref.                                                                    *)
(***************************************************************************)
Unmount ==
  /\ mounted
  /\ pc = "idle"
  /\ mounted' = FALSE
  /\ contentRef' = "null"
  /\ view' = Removed
  /\ UNCHANGED <<code, language, highlightedHtml, scrollHeight, copied,
                 isCollapsed, needsFolding, contentHeight, pc, now, timers,
                 clipboard, lastCopyAt>>

Next ==
  \/ LayoutEffect
  \/ \E c \in Codes, l \in Languages, h \in Markups : SetProps(c, l, h)
  \/ Expand
  \/ HandleCopy
  \/ TimerFire
  \/ Tick
  \/ Unmount

Spec == Init /\ [][Next]_vars

(***************************************************************************)
(* The states of the fold controller, read off the component               *)
(***************************************************************************)
\* the committed markup has been measured
Measured == mounted /\ pc = "idle"

\* the committed markup is new and its layout effect has not run
Unmeasured == mounted /\ pc = "layout"

FoldLimit == FOLD_THRESHOLD + FoldSlack

Clamp(h) == [t |-> "object", maxHeight |-> h]

(***************************************************************************)
(* C1.  A content change resets the fold state: whenever a new markup      *)
(* version has been committed and is not yet measured, isCollapsed is      *)
(* true, needsFolding is false and no clamp is emitted, whatever happened  *)
(* to the previous version.                                                *)
(***************************************************************************)
C1_ContentChangeResets ==
  Unmeasured => isCollapsed /\ ~needsFolding /\ view.style = Undefined

(***************************************************************************)
(* C2.  Whenever the displayed, measured content has height H <= 450,      *)
(* needsFolding is false and no max-height is emitted.                     *)
(***************************************************************************)
C2_ShortNeverFolds ==
  (Measured /\ scrollHeight <= FoldLimit) =>
    ~needsFolding /\ view.style = Undefined

(***************************************************************************)
(* C3.  The measurement of a version of height H > 450 ends in the state   *)
(* needsFolding, isCollapsed, contentHeight = H, max-height 400; and that  *)
(* state lasts while the version is displayed and not expanded.            *)
(***************************************************************************)
FoldableCollapsed ==
  /\ Measured
  /\ scrollHeight > FoldLimit
  /\ needsFolding
  /\ isCollapsed
  /\ contentHeight = scrollHeight
  /\ view.style = Clamp(FOLD_THRESHOLD)

C3_TallStartsCollapsed ==
  [][ /\ (Unmeasured /\ scrollHeight > FoldLimit /\ pc' = "idle")
           => FoldableCollapsed'
      /\ (FoldableCollapsed /\ Measured' /\ isCollapsed')
           => FoldableCollapsed' ]_vars

(***************************************************************************)
(* C4.  copied is true from a copy until at least 2000 ms after the most   *)
(* recent copy.                                                            *)
(***************************************************************************)
C4_CopiedHeldForDelay ==
  (mounted /\ now < lastCopyAt + RevertDelay) => copied

(***************************************************************************)
(* C5.  At most one copy-revert timer is pending.                          *)
(***************************************************************************)
C5_AtMostOneTimer == Len(timers) <= 1

(***************************************************************************)
(* C6.  The unmount cancels the pending revert timer, so no revert         *)
(* callback runs after it: no step of an unmounted instance takes a timer  *)
(* off the pending ones.                                                   *)
(***************************************************************************)
C6_NoCallbackAfterUnmount == [][ ~mounted => timers' = timers ]_vars

(***************************************************************************)
(* C7.  Expand is idempotent and terminal within one content version: the  *)
(* expand of a measured, collapsed version of height H > 450 emits         *)
(* max-height H; every step that clears isCollapsed is taken on foldable   *)
(* content and emits the recorded height; an expand in the expanded state  *)
(* changes nothing; and isCollapsed goes back to true, if ever, only in a  *)
(* step that changes the markup.                                           *)
(***************************************************************************)
C7_ExpandTerminal ==
  [][ /\ (Measured /\ scrollHeight > FoldLimit /\ isCollapsed /\ ~isCollapsed')
           => view'.style = Clamp(scrollHeight)
      /\ (isCollapsed /\ ~isCollapsed')
           => (Measured /\ needsFolding /\ view'.style = Clamp(contentHeight))
      /\ (~isCollapsed /\ Expand) => UNCHANGED vars
      /\ (~isCollapsed /\ isCollapsed')
           => Html(code', highlightedHtml') # Html(code, highlightedHtml) ]_vars

C7_Expanded ==
  /\ Measured
  /\ scrollHeight > FoldLimit
  /\ ~isCollapsed
  /\ view.style = Clamp(scrollHeight)
  /\ view.expandButton.disabled

(***************************************************************************)
(* C8.  The emitted view: max-height is undefined when needsFolding is     *)
(* false, 400 when needsFolding and isCollapsed, contentHeight when        *)
(* needsFolding and not isCollapsed; the expand button is rendered exactly *)
(* when needsFolding is true and disabled exactly when isCollapsed is      *)
(* false.                                                                  *)
(***************************************************************************)
C8_ViewContract ==
  mounted =>
    /\ ~needsFolding => view.style = Undefined
    /\ (needsFolding /\ isCollapsed) => view.style = Clamp(FOLD_THRESHOLD)
    /\ (needsFolding /\ ~isCollapsed) => view.style = Clamp(contentHeight)
    /\ (view.expandButton.t = "button") <=> needsFolding
    /\ needsFolding => (view.expandButton.disabled <=> ~isCollapsed)

C8_ClampedView ==
  /\ mounted
  /\ needsFolding
  /\ isCollapsed
  /\ view.style = Clamp(FOLD_THRESHOLD)
  /\ view.expandButton = [t |-> "button", disabled |-> FALSE]
  /\ copied

(***************************************************************************)
(* C9.  Every handleCopy hands the clipboard the code prop as it is at     *)
(* that moment, and not the displayed markup.                              *)
(***************************************************************************)
C9_CopyWritesCode ==
  [][ Len(timers') > Len(timers) =>
        /\ clipboard' = Str(code)
        /\ (view.innerHTML # Str(code) => clipboard' # view.innerHTML) ]_vars

C9_CopiedHighlighted ==
  /\ mounted
  /\ Truthy(highlightedHtml)
  /\ view.innerHTML = highlightedHtml
  /\ clipboard = Str(code)
  /\ timers # <<>>

(***************************************************************************)
(* The badge label over a wider set of language inputs                     *)
(***************************************************************************)
LabelAlphabet == { "t", "s", "T", "S", "p", "y", "c", "C" }

LabelSamples ==
  { <<"w","e","i","r","d","l","a","n","g">>,
    <<"W","e","i","r","d","L","a","n","g">>,
    <<"T","y","p","e","S","c","r","i","p","t">>,
    <<"T","X","T">>,
    <<"c","+","+">>,
    <<"t","o","S","t","r","i","n","g">>,
    <<"c","o","n","s","t","r","u","c","t","o","r">>,
    <<"_","_","p","r","o","t","o","_","_">> }

LabelInputs ==
  { Null, Str(<<>>) }
    \cup { Str(<<a>>) : a \in LabelAlphabet }
    \cup { Str(<<a, b>>) : a \in LabelAlphabet, b \in LabelAlphabet }
    \cup { Str(s) : s \in LabelSamples }

InitLabel == InitWith({ <<"a", "\n", "b">> }, LabelInputs, { Undefined })

NextLabel ==
  \/ LayoutEffect
  \/ \E l \in LabelInputs : SetProps(code, l, highlightedHtml)

SpecLabel == InitLabel /\ [][NextLabel]_vars

(***************************************************************************)
(* C10.  The label is "text" when there is no language, the label the      *)
(* table gives when the lower-cased language is one of its keys, and the   *)
(* lower-cased language otherwise.  (An empty language counts as none.)    *)
(***************************************************************************)
C10_LabelLookup ==
  mounted =>
    view.label =
      IF language = Null \/ language = Str(<<>>)
      THEN Str(<<"t","e","x","t">>)
      ELSE IF \E e \in LANGUAGE_MAP : e[1] = ToLowerCase(language.v)
           THEN Str((CHOOSE e \in LANGUAGE_MAP : e[1] = ToLowerCase(language.v))[2])
           ELSE Str(ToLowerCase(language.v))

(***************************************************************************)
(* C11.  The displayed markup is the highlighted markup verbatim whenever  *)
(* that is given and not empty; otherwise it is one pre block determined   *)
(* by code alone that holds the code text verbatim between its opening and *)
(* its closing tag.  A step that only gives the instance new props, and so *)
(* recomputes the markup, changes none of the four state cells.            *)
(***************************************************************************)
MarkupAsAdapted ==
  mounted =>
    /\ (highlightedHtml # Undefined /\ highlightedHtml # Str(<<>>))
         => view.innerHTML = highlightedHtml
    /\ (highlightedHtml = Undefined \/ highlightedHtml = Str(<<>>))
         => /\ view.innerHTML.t = "string"
            /\ Len(view.innerHTML.v) = Len(code) + 2
            /\ <<view.innerHTML.v[1]>> = PreOpen
            /\ SubSeq(view.innerHTML.v, 2, Len(code) + 1) = code
            /\ <<view.innerHTML.v[Len(code) + 2]>> = PreClose

C11_RenderInputAdapter ==
  /\ []MarkupAsAdapted
  /\ [][ <<code, language, highlightedHtml>>' # <<code, language, highlightedHtml>>
           => UNCHANGED <<copied, isCollapsed, needsFolding, contentHeight>> ]_vars

C11_EmptyMarkupFallsBack ==
  /\ Measured
  /\ highlightedHtml = Str(<<>>)
  /\ code = <<"x", "<", "y">>
  /\ view.innerHTML = Str(PreOpen \o <<"x", "<", "y">> \o PreClose)
  /\ needsFolding

(***************************************************************************)
(* The component under a renderer that may create no host node for the     *)
(* content region (react-test-renderer without createNodeMock): the ref    *)
(* object then holds null for the life of the instance.                    *)
(***************************************************************************)
InitDetached ==
  /\ mounted = TRUE
  /\ code \in Codes
  /\ language = Null
  /\ highlightedHtml \in Markups
  /\ scrollHeight \in Heights
  /\ contentRef \in { "div", "null" }
  /\ copied = FALSE
  /\ isCollapsed = TRUE
  /\ needsFolding = FALSE
  /\ contentHeight = 0
  /\ pc = "layout"
  /\ view = Render(code, language, highlightedHtml, FALSE, TRUE, FALSE, 0)
  /\ now = 0
  /\ timers = <<>>
  /\ clipboard = Undefined
  /\ lastCopyAt = 0 - RevertDelay

NextDetached ==
  \/ LayoutEffect
  \/ \E c \in Codes, h \in Markups : SetProps(c, language, h)
  \/ Expand
  \/ HandleCopy
  \/ TimerFire
  \/ Tick
  \/ Unmount

SpecDetached == InitDetached /\ [][NextDetached]_vars

(***************************************************************************)
(* C12.  A measurement step that finds the content region unattached       *)
(* changes no state cell and nothing of the view, so no height is recorded *)
(* and no fold decision is taken; every later step that changes the markup *)
(* of the mounted instance makes the layout effect due again, and a due    *)
(* layout effect can run.                                                  *)
(***************************************************************************)
C12_UnattachedIsNoOp ==
  /\ [](Unmeasured => ENABLED LayoutEffect)
  /\ [][ /\ (Unmeasured /\ contentRef = "null" /\ pc' = "idle")
              => UNCHANGED <<needsFolding, contentHeight, isCollapsed, copied,
                             view>>
         /\ (mounted' /\ Html(code', highlightedHtml') # Html(code, highlightedHtml))
              => pc' = "layout" ]_vars

C12_RetryDue ==
  /\ Unmeasured
  /\ contentRef = "null"
  /\ lastCopyAt >= 0
  /\ scrollHeight > FoldLimit
  /\ ~needsFolding
  /\ contentHeight = 0

(***************************************************************************)
(* C13.  Whenever a layout effect is due, the committed view already shows *)
(* the markup of the current props; no props arrive and the reported       *)
(* height does not change between a commit and its layout effect; and      *)
(* needsFolding and contentHeight are written only by that effect, from    *)
(* the height of the markup it finds committed.                            *)
(***************************************************************************)
C13_MeasuresCommittedLatest ==
  /\ [](Unmeasured => view.innerHTML = Html(code, highlightedHtml))
  /\ [][ /\ pc = "layout"
              => UNCHANGED <<code, language, highlightedHtml, scrollHeight>>
         /\ (contentHeight' # contentHeight \/ needsFolding' # needsFolding)
              => /\ Unmeasured
                 /\ pc' = "idle"
                 /\ needsFolding'
                 /\ contentHeight' = scrollHeight
                 /\ view'.innerHTML = view.innerHTML ]_vars

C13_SecondVersionMeasured ==
  /\ Measured
  /\ isCollapsed = FALSE
  /\ scrollHeight = 1000
  /\ contentHeight = 1000
  /\ view.innerHTML = Html(code, highlightedHtml)
  /\ highlightedHtml = Undefined

(***************************************************************************)
(* C14.  needsFolding changes only in the measurement step of a content    *)
(* version, which runs once per version, and only from false to true: no   *)
(* expand, copy, timer expiry, props change or unmount changes it.         *)
(***************************************************************************)
C14_NeedsFoldingStable ==
  [][ needsFolding' # needsFolding =>
        /\ Unmeasured
        /\ pc' = "idle"
        /\ ~needsFolding
        /\ needsFolding' ]_vars

C14_StillFoldingAfterEvents ==
  /\ Measured
  /\ needsFolding
  /\ ~isCollapsed
  /\ lastCopyAt >= 0
  /\ timers = <<>>
  /\ ~copied

(***************************************************************************)
(* C15.  An expanded snippet is never truncated: whenever the displayed    *)
(* content has been measured and isCollapsed is false, the emitted         *)
(* max-height is undefined or at least the height of the displayed         *)
(* content.                                                                *)
(***************************************************************************)
C15_ExpandedNotTruncated ==
  (Measured /\ ~isCollapsed) =>
    \/ view.style = Undefined
    \/ /\ view.style.t = "object"
       /\ view.style.maxHeight >= scrollHeight

C15_ExpandedShorterVersion ==
  /\ Measured
  /\ ~isCollapsed
  /\ scrollHeight <= FoldLimit
  /\ view.style = Clamp(1000)

(***************************************************************************)
(* C16.  needsFolding and the recorded height are written together:        *)
(* needsFolding false means contentHeight is still 0, needsFolding true    *)
(* means contentHeight > 450.                                              *)
(***************************************************************************)
C16_FlagAndHeightTogether ==
  /\ ~needsFolding => contentHeight = 0
  /\ needsFolding => contentHeight > FOLD_THRESHOLD + FoldSlack

C16_RecordedAfterShortVersions ==
  /\ Measured
  /\ needsFolding
  /\ contentHeight = FOLD_THRESHOLD + FoldSlack + 1
  /\ scrollHeight = FOLD_THRESHOLD
  /\ isCollapsed

(***************************************************************************)
(* C17.  isCollapsed false implies needsFolding true; isCollapsed is       *)
(* written only by a click on a rendered, enabled expand button, which     *)
(* sets it to false.                                                       *)
(***************************************************************************)
C17_ExpandedImpliesFoldable ==
  /\ [](~isCollapsed => needsFolding)
  /\ [][ isCollapsed' # isCollapsed =>
           /\ view.expandButton = [t |-> "button", disabled |-> FALSE]
           /\ ~isCollapsed' ]_vars

C17_ExpandedWhileCopied ==
  /\ Measured
  /\ ~isCollapsed
  /\ needsFolding
  /\ copied
  /\ Len(timers) = 1

(***************************************************************************)
(* C18.  The copy concern and the fold concern are independent: a copy and *)
(* a timer expiry leave isCollapsed, needsFolding and contentHeight        *)
(* unchanged; an expand and a measurement leave copied and the pending     *)
(* timers unchanged.                                                       *)
(***************************************************************************)
C18_CopyAndFoldIndependent ==
  [][ /\ (timers' # timers \/ copied' # copied \/ clipboard' # clipboard
            \/ lastCopyAt' # lastCopyAt)
           => UNCHANGED <<isCollapsed, needsFolding, contentHeight>>
      /\ (isCollapsed' # isCollapsed \/ (pc = "layout" /\ pc' = "idle"))
           => UNCHANGED <<copied, timers>> ]_vars

C18_BothConcernsActed ==
  /\ Measured
  /\ ~isCollapsed
  /\ needsFolding
  /\ copied
  /\ Len(timers) = 2
  /\ clipboard = Str(code)

(***************************************************************************)
(* The component with the scheduling the browser gives it: a due layout    *)
(* effect runs within its commit; time passes and a due timeout callback   *)
(* is run between tasks however often the instance is rendered again       *)
(* (strong fairness: a commit in progress holds both back only for the     *)
(* length of the commit).                                                  *)
(***************************************************************************)
Fairness ==
  /\ SF_vars(Tick)
  /\ SF_vars(TimerFire)
  /\ WF_vars(LayoutEffect)

\* one code text and no language: the copy concern reads neither
InitLive == InitWith({ <<"a", "\n", "b">> }, { Null }, Markups)

NextLive ==
  \/ LayoutEffect
  \/ \E h \in Markups : SetProps(code, language, h)
  \/ Expand
  \/ HandleCopy
  \/ TimerFire
  \/ Tick
  \/ Unmount

SpecLive == InitLive /\ [][NextLive]_vars /\ Fairness

(***************************************************************************)
(* C19.  The copied indicator always reverts: in every fair behaviour in   *)
(* which the instance stays mounted (handleCopy is called finitely often,  *)
(* the clock horizon bounding the calls), from some point on copied is     *)
(* false and no revert timer is pending.                                   *)
(***************************************************************************)
C19_CopiedReverts ==
  ([]mounted) => <>[](~copied /\ timers = <<>>)

C19_Reverted ==
  /\ mounted
  /\ ~copied
  /\ timers = <<>>
  /\ lastCopyAt = TickStep
  /\ clipboard = Str(code)
  /\ now = MaxTime

====
